---- MODULE Spec2Model ----
(***************************************************************************)
(* Model of production_app.py: the line-balancing calculation script.      *)
(* One run of the script is one behaviour: the sidebar inputs are read,    *)
(* the operation loop appends one task per iteration, the baseline table   *)
(* and metrics are computed, the advisor speaks, and the improvement       *)
(* simulation runs on a copy of the table before the summary is exported.  *)
(*                                                                         *)
(* Python floats are modelled as exact rationals [n, d] in lowest terms.   *)
(***************************************************************************)
EXTENDS Integers, Sequences, FiniteSets, TLC

VARIABLES pc, error,
          hours_per_day, days_per_week, weeks_per_year, availability, performance, quality,
          daily_demand, selling_price, material_cost,
          num_tasks, batch_size, tasks,
          df, bottlenecks_df, bottleneck_ops, bottleneck_times,
          takt_time, current_ops, daily_capacity,
          theoretical_min_ops, balance_efficiency,
          profit_per_unit, daily_profit, kpi,
          add_advice, remove_advice,
          setup_reduction, oee_gain, extra_shift, add_operator_bn,
          df_sim, new_available_time, new_daily_capacity,
          capacity_gain, new_profit, profit_gain,
          df_summary

inputVars == <<hours_per_day, days_per_week, weeks_per_year, availability, performance, quality,
               daily_demand, selling_price, material_cost,
               num_tasks, batch_size>>
tableVars == <<df, bottlenecks_df, bottleneck_ops, bottleneck_times>>
metricVars == <<takt_time, current_ops, daily_capacity,
                theoretical_min_ops, balance_efficiency,
                profit_per_unit, daily_profit, kpi>>
adviceVars == <<add_advice, remove_advice>>
simVars == <<setup_reduction, oee_gain, extra_shift, add_operator_bn,
             df_sim, new_available_time, new_daily_capacity,
             capacity_gain, new_profit, profit_gain>>
vars == <<pc, error, inputVars, tasks, tableVars, metricVars, adviceVars,
          simVars, df_summary>>

None == "none"

(***************************************************************************)
(* The bound of the model: at most MaxTasks operations (the widget allows  *)
(* 1..20).  Four are needed for an operation outside the top three.        *)
(***************************************************************************)
MaxTasks == 4

(***************************************************************************)
(* The values each input widget is given.  All lie within the widget's     *)
(* own minimum and maximum; times are in seconds, percentages as integers. *)
(* A demand of 0 is allowed by the demand input, which sets no minimum.    *)
(* Rates of 36 $/hr keep the per-unit costs short fractions.               *)
(***************************************************************************)
HoursChoices == {8}
AvailabilityChoices == {90}
PerformanceChoices == {100}
QualityChoices == {100}
DemandChoices == {0, 1000}
DaysPerWeekChoices == {5}
WeeksPerYearChoices == {50}
PriceChoices == {150}
MaterialChoices == {50}
BatchChoices == {20}
SetupChoices == {60}
CycleChoices == {30}
\* soak_sec, after the conversion of the chosen unit to seconds.
SoakChoices == {0, 20}
OperatorChoices == {1, 2}
RateChoices == {36}
SetupReductionChoices == {0, 50}
OeeGainChoices == {0, 20}
AddOperatorChoices == {0, 1}

(***************************************************************************)
(* Exact rational arithmetic standing for the script's float arithmetic.   *)
(***************************************************************************)
Abs(x) == IF x < 0 THEN -x ELSE x

RECURSIVE GCD(_, _)
GCD(a, b) == IF b = 0 THEN a ELSE GCD(b, a % b)

Rat(n, d) ==
    LET s == IF d < 0 THEN -1 ELSE 1
        g == GCD(Abs(n), Abs(d))
    IN  [n |-> s * (n \div g), d |-> s * (d \div g)]

FromInt(i) == [n |-> i, d |-> 1]

RAdd(x, y) ==
    IF x.d = y.d THEN Rat(x.n + y.n, x.d)
    ELSE LET g == GCD(x.d, y.d)
         IN  Rat(x.n * (y.d \div g) + y.n * (x.d \div g),
                 (x.d \div g) * y.d)

RNeg(x) == [n |-> -x.n, d |-> x.d]

RSub(x, y) == RAdd(x, RNeg(y))

\* Fractions in lowest terms, cancelled crosswise, multiply to lowest terms.
RMul(x, y) ==
    LET g1 == GCD(Abs(x.n), y.d)
        g2 == GCD(Abs(y.n), x.d)
    IN  [n |-> (x.n \div g1) * (y.n \div g2),
         d |-> (x.d \div g2) * (y.d \div g1)]

RInv(x) == IF x.n < 0 THEN [n |-> -x.d, d |-> -x.n] ELSE [n |-> x.d, d |-> x.n]

RDiv(x, y) == RMul(x, RInv(y))

RLeq(x, y) ==
    IF x.d = y.d THEN x.n <= y.n
    ELSE LET g == GCD(x.d, y.d)
         IN  x.n * (y.d \div g) <= y.n * (x.d \div g)

RLt(x, y) == ~RLeq(y, x)

RMin(x, y) == IF RLeq(x, y) THEN x ELSE y

RMax(x, y) == IF RLeq(x, y) THEN y ELSE x

Ceil(x) == -((-x.n) \div x.d)

Zero == FromInt(0)
One == FromInt(1)
Hundred == FromInt(100)

RECURSIVE RSum(_)
RSum(s) == IF s = <<>> THEN Zero ELSE RAdd(Head(s), RSum(Tail(s)))

RECURSIVE RMaxUpTo(_, _)
RMaxUpTo(s, k) == IF k = 1 THEN s[1] ELSE RMax(RMaxUpTo(s, k - 1), s[k])

RMaxSeq(s) == RMaxUpTo(s, Len(s))

RECURSIVE ISum(_)
ISum(s) == IF s = <<>> THEN 0 ELSE Head(s) + ISum(Tail(s))

\* The values of one column, row by row.
RECURSIVE ColumnUpTo(_, _, _)
ColumnUpTo(table, f, k) ==
    IF k = 0 THEN <<>> ELSE Append(ColumnUpTo(table, f, k - 1), table[k][f])

Column(table, f) == ColumnUpTo(table, f, Len(table))

(***************************************************************************)
(* Sidebar: OEE and available time.                                        *)
(***************************************************************************)
Oee(a, p, q) == Rat(a * p * q, 100 * 100 * 100)

AvailableTimeDay(h, o) == RMul(FromInt(h * 3600), o)

oee == Oee(availability, performance, quality)
available_time_day == AvailableTimeDay(hours_per_day, oee)

(***************************************************************************)
(* Operation inputs.                                                       *)
(***************************************************************************)
DefaultName(i) == <<"Op", i>>

\* The text input defaults to "Op i"; the second operation may instead be
\* given the first one's name.
NameChoices(i) ==
    IF i = 2 THEN {DefaultName(2), DefaultName(1)} ELSE {DefaultName(i)}

Task(name, setup, cycle, soak, operators, setup_rate, cycle_rate) ==
    [Operation |-> name, SetupTime |-> FromInt(setup), CycleTime |-> cycle,
     SoakTime |-> FromInt(soak), Operators |-> operators,
     SetupRate |-> setup_rate, CycleRate |-> cycle_rate]

Init ==
    /\ pc = "input"
    /\ error = None
    /\ hours_per_day \in HoursChoices
    /\ days_per_week \in DaysPerWeekChoices
    /\ weeks_per_year \in WeeksPerYearChoices
    /\ availability \in AvailabilityChoices
    /\ performance \in PerformanceChoices
    /\ quality \in QualityChoices
    /\ daily_demand \in DemandChoices
    /\ selling_price \in PriceChoices
    /\ material_cost \in MaterialChoices
    /\ num_tasks \in 1..MaxTasks
    /\ batch_size \in BatchChoices
    /\ tasks = <<>>
    /\ df = None
    /\ bottlenecks_df = None
    /\ bottleneck_ops = None
    /\ bottleneck_times = None
    /\ takt_time = None
    /\ current_ops = None
    /\ daily_capacity = None
    /\ theoretical_min_ops = None
    /\ balance_efficiency = None
    /\ profit_per_unit = None
    /\ daily_profit = None
    /\ kpi = None
    /\ add_advice = None
    /\ remove_advice = None
    /\ setup_reduction = None
    /\ oee_gain = None
    /\ extra_shift = None
    /\ add_operator_bn = None
    /\ df_sim = None
    /\ new_available_time = None
    /\ new_daily_capacity = None
    /\ capacity_gain = None
    /\ new_profit = None
    /\ profit_gain = None
    /\ df_summary = None

\* One iteration of the operation loop.
AddTask ==
    /\ pc = "input"
    /\ Len(tasks) < num_tasks
    /\ \E name \in NameChoices(Len(tasks) + 1), setup \in SetupChoices,
          cycle \in CycleChoices, soak \in SoakChoices,
          operators \in OperatorChoices, rate \in RateChoices :
          tasks' = Append(tasks,
                          Task(name, setup, cycle, soak, operators, rate, rate))
    /\ UNCHANGED <<pc, error, inputVars, tableVars, metricVars, adviceVars,
                   simVars, df_summary>>

(***************************************************************************)
(* Per-operation time and cost columns.  The cycle and setup cost columns  *)
(* are kept as their sum, the labor cost, and the material cost inside the *)
(* total cost.                                                             *)
(***************************************************************************)
SetupPerUnit(setup, batch) == Rat(setup.n, setup.d * batch)

\* Faulty variant: the cycle time is multiplied by the operator count.
EffectiveCycleTimesOperators(cycle, operators) == FromInt(cycle * operators)

EffectiveCycle(cycle, operators) == Rat(cycle, operators)

UnitTime(effective, setup_pu, soak) == RAdd(RAdd(effective, setup_pu), soak)

DeriveRow(t, batch, material) ==
    LET spu == SetupPerUnit(t.SetupTime, batch)
        eff == EffectiveCycle(t.CycleTime, t.Operators)
        cc  == RMul(eff, Rat(t.CycleRate, 3600))
        sc  == RMul(spu, Rat(t.SetupRate, 3600))
    IN  [Operation |-> t.Operation, SetupTime |-> t.SetupTime,
         CycleTime |-> t.CycleTime, SoakTime |-> t.SoakTime,
         Operators |-> t.Operators, SetupRate |-> t.SetupRate,
         CycleRate |-> t.CycleRate,
         SetupPerUnit |-> spu, EffectiveCycle |-> eff,
         UnitTime |-> UnitTime(eff, spu, t.SoakTime),
         LaborCost |-> RAdd(cc, sc),
         TotalCost |-> RAdd(RAdd(cc, sc), FromInt(material)),
         Utilization |-> None]

RECURSIVE DeriveRows(_, _, _, _)
DeriveRows(ts, batch, material, k) ==
    IF k = 0 THEN <<>>
    ELSE Append(DeriveRows(ts, batch, material, k - 1),
                DeriveRow(ts[k], batch, material))

BaselineTable(ts, batch, material) == DeriveRows(ts, batch, material, Len(ts))

Calculate ==
    /\ pc = "input"
    /\ Len(tasks) = num_tasks
    /\ df' = BaselineTable(tasks, batch_size, material_cost)
    /\ pc' = "bottlenecks"
    /\ UNCHANGED <<error, inputVars, tasks, bottlenecks_df, bottleneck_ops,
                   bottleneck_times, metricVars, adviceVars, simVars,
                   df_summary>>

(***************************************************************************)
(* Bottleneck ranking.  sort_values is called without kind=, so pandas     *)
(* sorts with its default "quicksort", which does not promise to keep      *)
(* equal keys in input order: every descending order of the rows is a      *)
(* possible result.                                                        *)
(***************************************************************************)
top_n_bottlenecks == 3

\* Faulty variant: the ranking sorts ascending.
MayPrecedeAscending(a, b) == RLeq(a, b)

\* ascending=False: a row may stand before another when its key is not less.
MayPrecede(a, b) == RLeq(b, a)

RECURSIVE SortFrom(_, _)
SortFrom(table, remaining) ==
    IF remaining = {} THEN {<<>>}
    ELSE UNION {{<<i>> \o rest : rest \in SortFrom(table, remaining \ {i})} :
                   i \in {i \in remaining :
                             \A j \in remaining :
                                 MayPrecede(table[i].UnitTime,
                                            table[j].UnitTime)}}

SortValues(table) == SortFrom(table, 1..Len(table))

TopN(o) ==
    [i \in 1..(IF Len(o) < top_n_bottlenecks THEN Len(o)
               ELSE top_n_bottlenecks) |-> o[i]]

Utilization(unit_time, bottleneck_time) ==
    RMul(RDiv(unit_time, bottleneck_time), Hundred)

RECURSIVE UtilizationRows(_, _, _)
UtilizationRows(table, bottleneck_time, k) ==
    IF k = 0 THEN <<>>
    ELSE Append(UtilizationRows(table, bottleneck_time, k - 1),
                [table[k] EXCEPT
                    !.Utilization =
                        Utilization(table[k].UnitTime, bottleneck_time)])

WithUtilization(table, bottleneck_time) ==
    UtilizationRows(table, bottleneck_time, Len(table))

RankBottlenecks ==
    /\ pc = "bottlenecks"
    /\ \E o \in SortValues(df) : bottlenecks_df' = TopN(o)
    /\ bottleneck_ops' = [i \in 1..Len(bottlenecks_df') |->
                             df[bottlenecks_df'[i]].Operation]
    /\ bottleneck_times' = [i \in 1..Len(bottlenecks_df') |->
                               df[bottlenecks_df'[i]].UnitTime]
    /\ df' = WithUtilization(df, bottleneck_times'[1])
    /\ pc' = "takt"
    /\ UNCHANGED <<error, inputVars, tasks, metricVars, adviceVars, simVars,
                   df_summary>>

(***************************************************************************)
(* Takt time: a plain division by the demand read from the sidebar.        *)
(***************************************************************************)
TaktTime ==
    /\ pc = "takt"
    /\ daily_demand # 0
    /\ takt_time' = RDiv(available_time_day, FromInt(daily_demand))
    /\ pc' = "metrics"
    /\ UNCHANGED <<error, inputVars, tasks, tableVars, current_ops,
                   daily_capacity, theoretical_min_ops, balance_efficiency,
                   profit_per_unit, daily_profit, kpi, adviceVars, simVars,
                   df_summary>>

\* float / 0 raises ZeroDivisionError and the script run ends there.
TaktTimeFails ==
    /\ pc = "takt"
    /\ daily_demand = 0
    /\ error' = "ZeroDivisionError"
    /\ pc' = "crashed"
    /\ UNCHANGED <<inputVars, tasks, tableVars, metricVars, adviceVars,
                   simVars, df_summary>>

(***************************************************************************)
(* Capacity, line balance and profit.                                      *)
(***************************************************************************)
DailyCapacity(available, bottleneck_time) == RDiv(available, bottleneck_time)

TheoreticalMinOps(work_content, takt) == Ceil(RDiv(work_content, takt))

BalanceEfficiency(work_content, ops, bottleneck_time) ==
    RMul(RDiv(work_content, RMul(FromInt(ops), bottleneck_time)), Hundred)

TotalCostPerUnit(table) ==
    RDiv(RSum(Column(table, "TotalCost")), FromInt(Len(table)))

ProfitPerUnit(price, cost) == RMax(Zero, RSub(FromInt(price), cost))

ActualOutput(capacity, demand) == RMin(capacity, FromInt(demand))

DailyProfit(ppu, output) == RMul(ppu, output)

\* The WIP multiplier slider, left at its default 1.5.
wip_multiplier == Rat(3, 2)

\* The average number of weeks in a month, 4.33.
WeeksPerMonth == Rat(433, 100)

DailyLaborCost(table, hours, capacity, batch) ==
    RAdd(FromInt(ISum([i \in 1..Len(table) |->
                          table[i].CycleRate * table[i].Operators * hours])),
         RSum([i \in 1..Len(table) |->
                  RDiv(RMul(RMul(FromInt(table[i].SetupRate), table[i].SetupTime),
                            RDiv(capacity, FromInt(batch))),
                       FromInt(3600))]))

Kpi(table, work, capacity, profit) ==
    LET weekly == RMul(capacity, FromInt(days_per_week))
        lead == RMul(work, wip_multiplier)
        wip == RMul(capacity, RDiv(lead, available_time_day))
        output == ActualOutput(capacity, daily_demand)
    IN  [throughput_hr |-> RDiv(FromInt(3600), bottleneck_times[1]),
         weekly_capacity |-> weekly,
         monthly_capacity |-> RMul(weekly, WeeksPerMonth),
         yearly_capacity |-> RMul(weekly, FromInt(weeks_per_year)),
         lead_time |-> lead,
         lead_time_days |-> IF RLt(Zero, capacity) THEN RDiv(wip, capacity)
                            ELSE Zero,
         total_cost_per_unit |-> TotalCostPerUnit(table),
         weekly_profit |-> RMul(profit, FromInt(days_per_week)),
         monthly_profit |->
             RMul(RMul(profit, FromInt(days_per_week)), WeeksPerMonth),
         yearly_profit |->
             RMul(RMul(profit, FromInt(days_per_week)), FromInt(weeks_per_year)),
         daily_labor_cost |->
             DailyLaborCost(table, hours_per_day, capacity, batch_size),
         util |-> IF RLt(Zero, capacity)
                  THEN RMul(RDiv(output, capacity), Hundred) ELSE Zero]

Metrics ==
    /\ pc = "metrics"
    /\ current_ops' = ISum(Column(df, "Operators"))
    /\ daily_capacity' = DailyCapacity(available_time_day, bottleneck_times[1])
    /\ theoretical_min_ops' =
           TheoreticalMinOps(RSum(Column(df, "UnitTime")), takt_time)
    /\ balance_efficiency' =
           BalanceEfficiency(RSum(Column(df, "UnitTime")), current_ops',
                             bottleneck_times[1])
    /\ profit_per_unit' = ProfitPerUnit(selling_price, TotalCostPerUnit(df))
    /\ daily_profit' =
           DailyProfit(profit_per_unit',
                       ActualOutput(daily_capacity', daily_demand))
    /\ kpi' = Kpi(df, RSum(Column(df, "UnitTime")), daily_capacity',
                  daily_profit')
    /\ pc' = "advisor"
    /\ UNCHANGED <<error, inputVars, tasks, tableVars, takt_time, adviceVars,
                   simVars, df_summary>>

(***************************************************************************)
(* Operator optimization advisor.                                          *)
(***************************************************************************)
\* df[df["Operation"] == name].iloc[0]
FirstRowNamed(table, name) ==
    table[CHOOSE i \in 1..Len(table) :
             /\ table[i].Operation = name
             /\ \A j \in 1..(i - 1) : table[j].Operation # name]

AddAdvice(table, name, takt) ==
    LET bn_row == FirstRowNamed(table, name)
        setup_u == bn_row.SetupPerUnit
    IN  IF RLt(setup_u, takt)
        THEN LET needed_ops ==
                     Ceil(RDiv(FromInt(bn_row.CycleTime), RSub(takt, setup_u)))
             IN  IF needed_ops > bn_row.Operators
                 THEN [op |-> name, say |-> "add", needed |-> needed_ops]
                 ELSE [op |-> name, say |-> "sufficient", needed |-> needed_ops]
        ELSE [op |-> name, say |-> "reduce setup", needed |-> 0]

\* The unit time the advisor computes for one operator fewer.
NewUnitTime(r) == RAdd(Rat(r.CycleTime, r.Operators - 1), r.SetupPerUnit)

InList(name, names) == \E k \in 1..Len(names) : names[k] = name

CanRemove(r, names, bottleneck_time) ==
    /\ ~InList(r.Operation, names)
    /\ r.Operators > 1
    /\ RLeq(NewUnitTime(r), bottleneck_time)

Advisor ==
    /\ pc = "advisor"
    /\ add_advice' = [k \in 1..Len(bottleneck_ops) |->
                         AddAdvice(df, bottleneck_ops[k], takt_time)]
    /\ remove_advice' = {i \in 1..Len(df) :
                            CanRemove(df[i], bottleneck_ops, bottleneck_times[1])}
    /\ pc' = "simulate"
    /\ UNCHANGED <<error, inputVars, tasks, tableVars, metricVars, simVars,
                   df_summary>>

(***************************************************************************)
(* Improvement simulation, on a copy of the baseline table.                *)
(***************************************************************************)
\* How many entries of the bottleneck name list equal this name: the loop
\* over bottleneck_ops adds the extra operators once per matching entry.
Matches(name, names) == Cardinality({k \in 1..Len(names) : names[k] = name})

SimOperators(r, names, add) == r.Operators + Matches(r.Operation, names) * add

\* Faulty variant: the setup time is scaled by the reduction itself.
SimSetupTimeByReduction(setup, reduction) ==
    Rat(setup.n * reduction, setup.d * 100)

\* setup * (1 - reduction/100)
SimSetupTime(setup, reduction) ==
    Rat(setup.n * (100 - reduction), setup.d * 100)

SimRow(r, names, reduction, add, batch) ==
    LET setup == SimSetupTime(r.SetupTime, reduction)
        spu == SetupPerUnit(setup, batch)
        operators == SimOperators(r, names, add)
        eff == EffectiveCycle(r.CycleTime, operators)
    IN  [r EXCEPT !.SetupTime = setup, !.SetupPerUnit = spu,
                  !.Operators = operators, !.EffectiveCycle = eff,
                  !.UnitTime = UnitTime(eff, spu, r.SoakTime)]

RECURSIVE SimRows(_, _, _, _, _, _)
SimRows(table, names, reduction, add, batch, k) ==
    IF k = 0 THEN <<>>
    ELSE Append(SimRows(table, names, reduction, add, batch, k - 1),
                SimRow(table[k], names, reduction, add, batch))

SimTable(table, names, reduction, add, batch) ==
    SimRows(table, names, reduction, add, batch, Len(table))

\* Faulty variant: the improved OEE is not capped at 1.
NewAvailableTimeUncapped(h, o, gain) ==
    RMul(FromInt(h * 3600), RAdd(o, Rat(gain, 100)))

NewAvailableTime(h, o, gain) ==
    RMul(FromInt(h * 3600), RMin(RAdd(o, Rat(gain, 100)), One))

NewDailyCapacity(available, bottleneck_time, shift) ==
    LET c == RDiv(available, bottleneck_time)
    IN  IF shift THEN RMul(c, FromInt(2)) ELSE c

\* Faulty variant: df_sim = df without the copy, so both names share one
\* table.
BaselineAliasedWithSim(baseline, simulated) == simulated

\* df_sim = df.copy(): the simulation writes to its own table, so the
\* baseline table after the simulation is the baseline table before it.
BaselineAfterSim(baseline, simulated) == baseline

\* The exported summary: df.copy() with one column per baseline metric.
SummaryOf(table) ==
    [table |-> table,
     balance_efficiency |-> balance_efficiency,
     utilization |-> Column(table, "Utilization"),
     theoretical_min_ops |-> theoretical_min_ops,
     current_ops |-> current_ops,
     oee |-> oee,
     daily_capacity |-> daily_capacity,
     profit_per_unit |-> profit_per_unit,
     daily_profit |-> daily_profit,
     kpi |-> kpi,
     bottlenecks |-> bottleneck_ops,
     bottleneck_time |-> bottleneck_times[1],
     material_cost |-> material_cost]

\* The last two sections of the script: the simulation, then the summary.
Simulate ==
    /\ pc = "simulate"
    /\ setup_reduction' \in SetupReductionChoices
    /\ oee_gain' \in OeeGainChoices
    /\ extra_shift' \in BOOLEAN
    /\ add_operator_bn' \in AddOperatorChoices
    /\ df_sim' = SimTable(df, bottleneck_ops, setup_reduction',
                          add_operator_bn', batch_size)
    /\ df' = BaselineAfterSim(df, df_sim')
    /\ new_available_time' = NewAvailableTime(hours_per_day, oee, oee_gain')
    /\ new_daily_capacity' =
           NewDailyCapacity(new_available_time',
                            RMaxSeq(Column(df_sim', "UnitTime")), extra_shift')
    /\ capacity_gain' = RSub(new_daily_capacity', daily_capacity)
    /\ new_profit' = RMul(ActualOutput(new_daily_capacity', daily_demand),
                          profit_per_unit)
    /\ profit_gain' = RSub(new_profit', daily_profit)
    /\ df_summary' = SummaryOf(df')
    /\ pc' = "done"
    /\ UNCHANGED <<error, inputVars, tasks, bottlenecks_df, bottleneck_ops,
                   bottleneck_times, metricVars, adviceVars>>

Next ==
    \/ AddTask
    \/ Calculate
    \/ RankBottlenecks
    \/ TaktTime
    \/ TaktTimeFails
    \/ Metrics
    \/ Advisor
    \/ Simulate

Spec == Init /\ [][Next]_vars

(***************************************************************************)
(* Properties.                                                             *)
(***************************************************************************)
Ranked == pc \notin {"input", "bottlenecks"}

Simulated == pc = "done"

IsBottleneck(i) == \E k \in 1..Len(bottlenecks_df) : bottlenecks_df[k] = i

\* The sidebar value hours_per_day * 3600: the whole scheduled day.
ScheduledTime == FromInt(hours_per_day * 3600)

\* The daily capacity a baseline run computes from an operation list.
CapacityOfRun(ts) ==
    LET table == BaselineTable(ts, batch_size, material_cost)
        o == CHOOSE o \in SortValues(table) : TRUE
    IN  DailyCapacity(available_time_day, table[o[1]].UnitTime)

WithOperators(ts, i, operators) ==
    [ts EXCEPT ![i] = [ts[i] EXCEPT !.Operators = operators]]

ExtraOperatorChoices == {1, 2}

ZeroOverrides ==
    /\ setup_reduction = 0
    /\ oee_gain = 0
    /\ extra_shift = FALSE
    /\ add_operator_bn = 0

\* C1: with all-zero overrides (no setup reduction, no OEE gain, no extra
\* shift, no added operators) the simulation reproduces the baseline daily
\* capacity and daily profit, so both reported gains are zero.
C1_RoundTrip ==
    (Simulated /\ ZeroOverrides) =>
        /\ new_daily_capacity = daily_capacity
        /\ new_profit = daily_profit
        /\ capacity_gain = Zero
        /\ profit_gain = Zero

C1_Witness ==
    /\ Simulated
    /\ ZeroOverrides
    /\ Len(df) > 1
    /\ RLt(Zero, daily_profit)

\* C2: the primary bottleneck has the maximum unit time and is the first
\* operation of the input that has it; the top-K list is in descending unit
\* time with equal unit times kept in input order.
C2_StableRanking ==
    Ranked =>
        /\ \A i \in 1..Len(df) :
              /\ RLeq(df[i].UnitTime, df[bottlenecks_df[1]].UnitTime)
              /\ df[i].UnitTime = df[bottlenecks_df[1]].UnitTime
                     => bottlenecks_df[1] <= i
        /\ \A k, l \in 1..Len(bottlenecks_df) :
              k < l =>
                  /\ RLeq(bottleneck_times[l], bottleneck_times[k])
                  /\ bottleneck_times[l] = bottleneck_times[k]
                         => bottlenecks_df[k] < bottlenecks_df[l]

\* C3: with a daily demand of zero the takt time computation ends in the
\* typed failure UndefinedTaktTimeError, and nothing that depends on takt
\* time (minimum operators, balance efficiency, the advisor) yields a value.
C3_TypedTaktFailure ==
    (daily_demand = 0 /\ pc \notin {"input", "bottlenecks", "takt"}) =>
        /\ error = "UndefinedTaktTimeError"
        /\ takt_time = None
        /\ theoretical_min_ops = None
        /\ balance_efficiency = None
        /\ add_advice = None

\* C4: an operation is advised to give up one operator only if it is not in
\* the bottleneck set, has more than one operator, and its unit time with
\* one operator fewer (cycle / (operators - 1) + setup per unit + soak) stays
\* within the primary bottleneck's unit time; taking the advice then leaves
\* the daily capacity unchanged.
C4_RemovalKeepsCapacity ==
    pc \in {"simulate", "done"} =>
        \A i \in remove_advice :
            /\ ~IsBottleneck(i)
            /\ df[i].Operators > 1
            /\ RLeq(UnitTime(Rat(df[i].CycleTime, df[i].Operators - 1),
                             df[i].SetupPerUnit, df[i].SoakTime),
                    bottleneck_times[1])
            /\ CapacityOfRun(WithOperators(tasks, i, tasks[i].Operators - 1))
                   = daily_capacity

C6_BaselineUntouched ==
    [][pc = "simulate" =>
          /\ df' = df
          /\ bottlenecks_df' = bottlenecks_df
          /\ bottleneck_ops' = bottleneck_ops
          /\ bottleneck_times' = bottleneck_times
          /\ daily_capacity' = daily_capacity
          /\ profit_per_unit' = profit_per_unit
          /\ daily_profit' = daily_profit
          /\ df_summary'.table = df
          /\ df_summary'.utilization = Column(df, "Utilization")
          /\ df_summary'.bottlenecks = bottleneck_ops
          /\ df_summary'.bottleneck_time = bottleneck_times[1]
          /\ df_summary'.daily_capacity = daily_capacity
          /\ df_summary'.profit_per_unit = profit_per_unit
          /\ df_summary'.daily_profit = daily_profit]_vars

C6_Witness ==
    /\ Simulated
    /\ df_sim # df
    /\ new_daily_capacity # daily_capacity
    /\ df_summary.daily_capacity = daily_capacity

\* C8: in a baseline run the primary bottleneck's utilization is exactly 100
\* and every operation's utilization is above 0 and at most 100.
C8_UtilizationBounds ==
    Ranked =>
        /\ df[bottlenecks_df[1]].Utilization = Hundred
        /\ \A i \in 1..Len(df) :
              /\ RLt(Zero, df[i].Utilization)
              /\ RLeq(df[i].Utilization, Hundred)

C8_Witness ==
    /\ Ranked
    /\ \E i \in 1..Len(df) : RLt(df[i].Utilization, Hundred)

\* C9: in the simulated table every setup time is the baseline setup time
\* scaled by (1 - reduction/100), and the operator count is raised by exactly
\* the requested number for the operations of the baseline bottleneck set
\* and is unchanged for all others.
C9_SimulatedInputs ==
    Simulated =>
        \A i \in 1..Len(df) :
            /\ df_sim[i].SetupTime =
                   RMul(df[i].SetupTime, RSub(One, Rat(setup_reduction, 100)))
            /\ df_sim[i].Operators =
                   df[i].Operators
                       + (IF IsBottleneck(i) THEN add_operator_bn ELSE 0)

====
